---- MODULE Spec2Model ----
(***************************************************************************)
(* Model of src/frontend/Model.tsx: the Model detail view (one fetch per   *)
(* slug, no cancellation) and the ImageGallery it renders (selected image  *)
(* index, next/previous/thumbnail navigation, window keydown listener).    *)
(*                                                                         *)
(* React semantics the component relies on:                                *)
(*  - useState keeps its value for as long as the component stays mounted  *)
(*    at the same position, whatever props it is re-rendered with;         *)
(*  - useEffect(f, []) runs f once after mount and its cleanup at unmount, *)
(*    so the closures f captured are those of the first render;            *)
(*  - a state setter called for an unmounted component changes nothing.    *)
(***************************************************************************)
EXTENDS Integers, Sequences, FiniteSets

\* ---------------------------------------------------------------- bounds
MaxImages == 3      \* largest images.length a response carries
MaxFetches == 4     \* fetches issued in one run
MaxMounts == 2      \* times the Model view is mounted in one run

MaxHist == MaxImages + 1   \* navigation steps kept in hist

Slugs == {"a", "b"}
Keys == {"ArrowLeft", "ArrowRight", "Enter"}

\* useState<DetailedModelResponse>() without a value: `model` is undefined.
\* Responses have id >= 1, so no response equals None.
None == [id |-> 0, slug |-> "undefined", len |-> 0, inst |-> 0]

\* The JavaScript number NaN, as an integer no index computation produces;
\* JsAdd and JsMod test for it before doing any arithmetic.
NaN == 0 - 999

VARIABLES
    mounted,        \* the Model view is mounted
    inst,           \* identity of the current (or last) Model instance
    slug,           \* useParams().slug of the mounted view
    model,          \* Model's state `model`: None or the last response set
    fetches,        \* fetch() promises not yet settled
    reqs,           \* number of fetches issued so far
    rejected,       \* a fetch of the current instance went to .catch (console.error)
    dropped,        \* a response arrived for an instance that was unmounted
    galleries,      \* identity of the current (or last) ImageGallery instance
    selectedImage,  \* ImageGallery's state `selectedImage`
    listeners,      \* window's keydown listeners, in registration order
    hist            \* record of the navigation steps taken (kept by SpecNav only)

vars == <<mounted, inst, slug, model, fetches, reqs, rejected, dropped,
          galleries, selectedImage, listeners, hist>>

\* ------------------------------------------------------ pure arithmetic
\* JavaScript's % on numbers: NaN operands and a zero divisor give NaN, the
\* sign of the result is the sign of the dividend.
JsMod(a, b) ==
    IF a = NaN \/ b = NaN THEN NaN
    ELSE IF b = 0 THEN NaN
    ELSE IF a >= 0 THEN a % b
    ELSE 0 - ((0 - a) % b)

JsAdd(a, b) == IF a = NaN \/ b = NaN THEN NaN ELSE a + b

\* nextImage without the wraparound
nextImage_NoWrap(prev, len) == JsAdd(prev, 1)

\* nextImage stopping at the last image instead of wrapping
nextImage_Clamp(prev, len) ==
    IF prev = NaN \/ len = 0 THEN NaN
    ELSE IF prev + 1 >= len THEN len - 1 ELSE prev + 1

\* (prev) => (prev + 1) % model.images.length
nextImage(prev, len) == JsMod(JsAdd(prev, 1), len)

\* previousImage without adding the length before the remainder
previousImage_NoAdd(prev, len) == JsMod(JsAdd(prev, -1), len)

\* (prev) => (prev - 1 + model.images.length) % model.images.length
previousImage(prev, len) == JsMod(JsAdd(JsAdd(prev, -1), len), len)

\* ------------------------------------------------------------- helpers
\* {model && (... <ImageGallery model={model} /> ...)}
galleryMounted == mounted /\ model # None

Remember(op, len) ==
    LET h == Append(hist, [op |-> op, len |-> len, before |-> selectedImage])
    IN  IF Len(h) > MaxHist THEN Tail(h) ELSE h

\* getModels(): fetch(BACKEND_BASE_URL + `/api/model/${slug}`)
getModels(s, i) == fetches \cup {[id |-> reqs + 1, slug |-> s, inst |-> i]}

\* removeEventListener called with a function that was never registered
removeEventListener_OtherFunction(ls, g) == ls

\* window.removeEventListener("keydown", handleKeyDown) of gallery g
RECURSIVE removeEventListener(_, _)
removeEventListener(ls, g) ==
    IF ls = <<>> THEN <<>>
    ELSE IF Head(ls).gid = g THEN Tail(ls)
    ELSE <<Head(ls)>> \o removeEventListener(Tail(ls), g)

\* handleKeyDown of one listener: the closures of the gallery's first render
handleKeyDown(l, key, sel) ==
    IF key = "ArrowLeft" THEN previousImage(sel, l.len)
    ELSE IF key = "ArrowRight" THEN nextImage(sel, l.len)
    ELSE sel

\* the listener acts on its own gallery; the setter of a gallery that is no
\* longer mounted changes nothing
ListenerActs(l) == galleryMounted /\ l.gid = galleries

RECURSIVE dispatchKey(_, _, _)
dispatchKey(ls, key, sel) ==
    IF ls = <<>> THEN sel
    ELSE dispatchKey(Tail(ls), key,
                     IF ListenerActs(Head(ls)) THEN handleKeyDown(Head(ls), key, sel)
                     ELSE sel)

RECURSIVE dispatchHist(_, _, _, _)
dispatchHist(ls, key, sel, h) ==
    IF ls = <<>> THEN h
    ELSE LET l == Head(ls)
             acts == ListenerActs(l) /\ key \in {"ArrowLeft", "ArrowRight"}
             h1 == Append(h, [op |-> IF key = "ArrowLeft" THEN "previous" ELSE "next",
                              len |-> l.len, before |-> sel])
             h2 == IF Len(h1) > MaxHist THEN Tail(h1) ELSE h1
         IN  dispatchHist(Tail(ls), key,
                          IF ListenerActs(l) THEN handleKeyDown(l, key, sel) ELSE sel,
                          IF acts THEN h2 ELSE h)

\* ---------------------------------------------------------------- Init
\* The view has just been mounted for some slug: first render done, the
\* effect of useEffect(..., [slug]) has issued the first fetch.
Init ==
    /\ mounted = TRUE
    /\ inst = 1
    /\ slug \in Slugs
    /\ model = None
    /\ reqs = 1
    /\ fetches = {[id |-> 1, slug |-> slug, inst |-> 1]}
    /\ rejected = FALSE
    /\ dropped = FALSE
    /\ galleries = 0
    /\ selectedImage = 0
    /\ listeners = <<>>
    /\ hist = <<>>

\* ------------------------------------------------------------- actions
\* The router mounts a new Model view for slug s.
MountView(s) ==
    /\ ~mounted
    /\ inst < MaxMounts
    /\ reqs < MaxFetches
    /\ mounted' = TRUE
    /\ inst' = inst + 1
    /\ slug' = s
    /\ model' = None
    /\ fetches' = getModels(s, inst + 1)
    /\ reqs' = reqs + 1
    /\ rejected' = FALSE
    /\ UNCHANGED <<dropped, galleries, selectedImage, listeners>>

\* The route parameter changes while the view stays mounted:
\* useEffect(() => { getModels(); }, [slug]).
ChangeSlug(s) ==
    /\ mounted
    /\ s # slug
    /\ reqs < MaxFetches
    /\ slug' = s
    /\ fetches' = getModels(s, inst)
    /\ reqs' = reqs + 1
    /\ UNCHANGED <<mounted, inst, model, rejected, dropped, galleries, selectedImage, listeners>>

\* The view unmounts; a mounted gallery unmounts with it and its keydown
\* effect is cleaned up. Outstanding fetches are not cancelled.
UnmountView ==
    /\ mounted
    /\ mounted' = FALSE
    /\ model' = None
    /\ listeners' = IF galleryMounted THEN removeEventListener(listeners, galleries)
                    ELSE listeners
    /\ selectedImage' = 0
    /\ UNCHANGED <<inst, slug, fetches, reqs, rejected, dropped, galleries>>

\* setModel writing to a store shared by all instances of the view
setModel_AnyInstance(f, len) ==
    /\ model' = [id |-> f.id, slug |-> f.slug, len |-> len, inst |-> f.inst]
    /\ dropped' = (dropped \/ ~(mounted /\ f.inst = inst))
    /\ IF model = None
       THEN /\ galleries' = galleries + 1
            /\ selectedImage' = 0
            /\ listeners' = Append(listeners,
                                   [gid |-> galleries + 1, len |-> len, id |-> f.id])
       ELSE UNCHANGED <<galleries, selectedImage, listeners>>

\* setModel(response_models) as React applies it for the instance that
\* issued fetch f: the state of a mounted instance is replaced, the setter
\* of an unmounted one changes nothing.
setModel(f, len) ==
    IF mounted /\ f.inst = inst
    THEN /\ model' = [id |-> f.id, slug |-> f.slug, len |-> len, inst |-> f.inst]
         /\ dropped' = dropped
         /\ IF model = None
            THEN \* ImageGallery mounts: useState(0), the keydown effect runs
                 /\ galleries' = galleries + 1
                 /\ selectedImage' = 0
                 /\ listeners' = Append(listeners,
                                        [gid |-> galleries + 1, len |-> len, id |-> f.id])
            ELSE \* ImageGallery is re-rendered with the new prop
                 UNCHANGED <<galleries, selectedImage, listeners>>
    ELSE /\ dropped' = TRUE
         /\ UNCHANGED <<model, galleries, selectedImage, listeners>>

\* fetch f settles with an OK response whose JSON has len images.
FetchResolve(f, len) ==
    /\ f \in fetches
    /\ fetches' = fetches \ {f}
    /\ setModel(f, len)
    /\ UNCHANGED <<mounted, inst, slug, reqs, rejected>>

\* fetch f fails (network error, !response.ok, response.json() throws):
\* .catch logs the error.
FetchReject(f) ==
    /\ f \in fetches
    /\ fetches' = fetches \ {f}
    /\ rejected' = (rejected \/ (mounted /\ f.inst = inst))
    /\ UNCHANGED <<mounted, inst, slug, model, reqs, dropped, galleries, selectedImage, listeners>>

\* onClick={nextImage} of the current render
ClickNext ==
    /\ galleryMounted
    /\ selectedImage' = nextImage(selectedImage, model.len)
    /\ UNCHANGED <<mounted, inst, slug, model, fetches, reqs, rejected, dropped,
                   galleries, listeners>>

\* onClick={previousImage} of the current render
ClickPrevious ==
    /\ galleryMounted
    /\ selectedImage' = previousImage(selectedImage, model.len)
    /\ UNCHANGED <<mounted, inst, slug, model, fetches, reqs, rejected, dropped,
                   galleries, listeners>>

\* onClick={() => setSelectedImage(index)} of thumbnail index
ClickThumbnail(index) ==
    /\ galleryMounted
    /\ index \in 0 .. (model.len - 1)
    /\ selectedImage' = index
    /\ UNCHANGED <<mounted, inst, slug, model, fetches, reqs, rejected, dropped,
                   galleries, listeners>>

\* a keydown event on window: every registered listener runs (with none
\* registered the event changes nothing, so the step is left out)
KeyDown(key) ==
    /\ listeners # <<>>
    /\ selectedImage' = dispatchKey(listeners, key, selectedImage)
    /\ UNCHANGED <<mounted, inst, slug, model, fetches, reqs, rejected, dropped,
                   galleries, listeners>>

Next ==
    \/ \E s \in Slugs : MountView(s) /\ UNCHANGED hist
    \/ \E s \in Slugs : ChangeSlug(s) /\ UNCHANGED hist
    \/ UnmountView /\ UNCHANGED hist
    \/ \E f \in fetches, len \in 0 .. MaxImages : FetchResolve(f, len) /\ UNCHANGED hist
    \/ \E f \in fetches : FetchReject(f) /\ UNCHANGED hist
    \/ ClickNext /\ UNCHANGED hist
    \/ ClickPrevious /\ UNCHANGED hist
    \/ \E index \in 0 .. (MaxImages - 1) : ClickThumbnail(index) /\ UNCHANGED hist
    \/ \E key \in Keys : KeyDown(key) /\ UNCHANGED hist

Spec == Init /\ [][Next]_vars

\* ------------------------------------------- navigation, steps recorded
\* A gallery showing one model record of len images; every navigation step
\* is appended to hist with the index it started from and the length it
\* used.
InitNav ==
    /\ mounted = TRUE
    /\ inst = 1
    /\ slug \in Slugs
    /\ reqs = 1
    /\ fetches = {}
    /\ rejected = FALSE
    /\ dropped = FALSE
    /\ galleries = 1
    /\ \E len \in 0 .. MaxImages :
          /\ model = [id |-> 1, slug |-> slug, len |-> len, inst |-> 1]
          /\ listeners = <<[gid |-> 1, len |-> len, id |-> 1]>>
    /\ selectedImage = 0
    /\ hist = <<>>

NextNav ==
    \/ ClickNext /\ hist' = Remember("next", model.len)
    \/ ClickPrevious /\ hist' = Remember("previous", model.len)
    \/ \E index \in 0 .. (MaxImages - 1) : ClickThumbnail(index) /\ hist' = <<>>
    \/ \E key \in Keys :
          KeyDown(key) /\ hist' = dispatchHist(listeners, key, selectedImage, hist)

SpecNav == InitNav /\ [][NextNav]_vars

\* ------------------------------------------------------------ properties
\* the model record the gallery was first rendered with is still displayed
Unreplaced ==
    \E k \in 1 .. Len(listeners) :
        listeners[k].gid = galleries /\ listeners[k].id = model.id

\* the fetches of the mounted instance that have not settled
Outstanding == {f \in fetches : f.inst = inst}

\* the index a recorded navigation step k left behind
After(k) == IF k < Len(hist) THEN hist[k + 1].before ELSE selectedImage

\* C1: for a gallery showing one model record with n >= 1 images, after any
\* sequence of next, previous and thumbnail selections (by click or key) from
\* index 0, selectedImage is an integer in 0 .. n-1.
C1_IndexInRange ==
    (galleryMounted /\ Unreplaced /\ model.len >= 1)
        => selectedImage \in 0 .. (model.len - 1)

C1_Witness ==
    /\ galleryMounted /\ Unreplaced
    /\ model.len = MaxImages
    /\ selectedImage = MaxImages - 1

\* C2: whenever the record displayed by a mounted gallery is replaced by the
\* record of another slug, selectedImage is 0 afterwards. Stated for the
\* plainest case: the old record has images, the index is valid in it, and
\* the new record is the response for the current slug.
C2_ModelChangeResetsIndex ==
    [][(galleryMounted /\ galleryMounted' /\ model'.id # model.id
            /\ model'.slug # model.slug /\ model'.slug = slug
            /\ model.len >= 1 /\ selectedImage \in 0 .. (model.len - 1))
        => selectedImage' = 0]_vars

\* C3: in every state with a mounted gallery, an ArrowRight keydown leaves
\* the index a click on the next-button would leave, and an ArrowLeft keydown
\* the index a click on the previous-button would leave. Stated for records
\* that all have images and an index that is a number.
C3_KeyEqualsClick ==
    [][(galleryMounted /\ model.len >= 1 /\ selectedImage # NaN
            /\ \A k \in 1 .. Len(listeners) : listeners[k].len >= 1) =>
        /\ KeyDown("ArrowRight") => selectedImage' = nextImage(selectedImage, model.len)
        /\ KeyDown("ArrowLeft") => selectedImage' = previousImage(selectedImage, model.len)]_vars

\* C4: a response that arrives for an unmounted instance of the view is
\* discarded: an unmounted view holds no model, and the model a mounted view
\* holds always comes from a fetch that this instance issued.
C4_LateResponseDiscarded ==
    /\ ~mounted => model = None
    /\ model # None => model.inst = inst

C4_Witness == dropped /\ fetches = {}

\* C5: when the fetch for the current slug fails, no model is set
\* afterwards. Stated for the latest fetch of the mounted view failing while
\* no other fetch is outstanding.
C5_FailureLeavesNoModel ==
    [][\A f \in fetches :
          (mounted /\ f.inst = inst /\ f.id = reqs /\ fetches = {f} /\ FetchReject(f))
              => model' = None]_vars

\* C6: while the displayed record has no images, nothing done to the mounted
\* gallery changes selectedImage, and selectedImage is never NaN.
C6_EmptyGalleryNoOp ==
    [][(galleryMounted /\ galleryMounted' /\ model.len = 0 /\ model' = model)
        => (selectedImage' = selectedImage /\ selectedImage' # NaN)]_vars

\* C7: at most one keydown listener is registered at any time; it is the
\* listener of the mounted gallery, registered exactly while that gallery is
\* mounted, so no listener of a destroyed gallery remains.
C7_OneListener ==
    /\ Len(listeners) <= 1
    /\ \A k \in 1 .. Len(listeners) : galleryMounted /\ listeners[k].gid = galleries
    /\ galleryMounted => Len(listeners) = 1

C7_Witness == ~mounted /\ galleries = MaxMounts /\ listeners = <<>>

\* C8: with n >= 1 images and an index i in 0 .. n-1, next followed by
\* previous, and previous followed by next, leave the index at i.
C8_NextPreviousInverse ==
    \A k \in 2 .. Len(hist) :
        LET a == hist[k - 1]
            b == hist[k]
        IN  (a.len >= 1 /\ b.len = a.len /\ a.op # b.op
                /\ a.before \in 0 .. (a.len - 1))
                => After(k) = a.before

C8_Witness ==
    /\ Len(hist) >= 4
    /\ hist[Len(hist) - 3].op = "next" /\ hist[Len(hist) - 2].op = "previous"
    /\ hist[Len(hist) - 1].op = "previous" /\ hist[Len(hist)].op = "next"
    /\ hist[Len(hist) - 3].before = MaxImages - 1 /\ hist[Len(hist)].len = MaxImages
    /\ hist[Len(hist) - 1].before = MaxImages - 1 /\ selectedImage = MaxImages - 1

\* C9: with n >= 1 images, n consecutive next steps from an index i in
\* 0 .. n-1 end at i; next from n-1 gives 0 and previous from 0 gives n-1.
C9_FullCycle ==
    /\ \A k \in 1 .. Len(hist) :
          LET n == hist[k].len
          IN  (n >= 1 /\ k >= n /\ hist[k - n + 1].before \in 0 .. (n - 1)
                 /\ \A j \in (k - n + 1) .. k : hist[j].op = "next" /\ hist[j].len = n)
                 => After(k) = hist[k - n + 1].before
    /\ \A k \in 1 .. Len(hist) :
          LET n == hist[k].len
          IN  /\ (n >= 1 /\ hist[k].op = "next" /\ hist[k].before = n - 1)
                    => After(k) = 0
              /\ (n >= 1 /\ hist[k].op = "previous" /\ hist[k].before = 0)
                    => After(k) = n - 1

C9_Witness ==
    /\ Len(hist) = MaxImages
    /\ \A k \in 1 .. Len(hist) : hist[k].op = "next" /\ hist[k].len = MaxImages
    /\ hist[1].before = 1
    /\ selectedImage = 1

\* C10: once every fetch of the mounted view has settled and none of them
\* failed, the model held is the response for the current slug.
C10_LatestSlugWins ==
    (mounted /\ Outstanding = {} /\ ~rejected)
        => (model # None /\ model.slug = slug)

====
